---- MODULE Spec2Model ----
(***************************************************************************)
(* A model of mockdns: the zone normaliser (types.go), the local query     *)
(* handler, the proxy forwarder, the request logger and the listener       *)
(* life cycle (main.go, proxying variant).                                  *)
(*                                                                         *)
(* The specifications of the module share its variables:                   *)
(*   SpecResolve   the local handler applied to bounded record sets and    *)
(*                 queries, one loop iteration per step;                   *)
(*   SpecProxy     the proxy forwarder applied to one request;             *)
(*   SpecHandlers  one request given to either handler;                    *)
(*   Spec          the process: start-up, the two transports, queries in   *)
(*                 flight on both, shutdown (FairSpec adds the fairness    *)
(*                 the Go scheduler gives runnable goroutines);            *)
(*   SpecLoad      data.UnmarshalJSON applied to bounded documents         *)
(*                 (SpecLoadCase: to the documents tried for letter case). *)
(***************************************************************************)
EXTENDS Integers, Sequences, FiniteSets, TLC

(***************************************************************************)
(* Bounds of the model.                                                    *)
(***************************************************************************)
\* longest stored sequence of one record type
MaxRecs == 2
\* most questions carried by one query handed to the handler
MaxQuestions == 2
\* most upstream servers in the resolver configuration
MaxServers == 2
\* longest list of field maps under one type name of a document
MaxSlots == 2
\* most domain keys in one document
MaxDomains == 2

(***************************************************************************)
(* Record types: the uint16 codes of github.com/miekg/dns that the program *)
(* names.                                                                  *)
(***************************************************************************)
TypeA == 1
TypeNS == 2
TypeCNAME == 5
TypePTR == 12
TypeMX == 15
TypeTXT == 16
TypeAAAA == 28
TypeANY == 255
TypeCAA == 257

RcodeSuccess == 0
RcodeServerFailure == 2

\* the codes in the range of supportedTypes
SupportedCodes == {TypeA, TypeAAAA, TypeCAA, TypeCNAME, TypeMX, TypeNS, TypePTR, TypeTXT}

(***************************************************************************)
(* Sequence helpers.                                                       *)
(***************************************************************************)
RECURSIVE Flatten(_)
Flatten(ss) == IF ss = <<>> THEN <<>> ELSE Head(ss) \o Flatten(Tail(ss))

\* the orders in which a Go range statement may visit the keys S of a map
RangeOrders(S) ==
    {o \in [1..Cardinality(S) -> S] : \A i, j \in 1..Cardinality(S) : o[i] = o[j] => i = j}

(***************************************************************************)
(* The local handler (handler, main.go).  recs is records.data: a function *)
(* from the type codes present to non-empty sequences of resource records. *)
(***************************************************************************)
\* mutant: a question of a type that is not stored is answered with the A records
AnswerTypedFallback(recs, qtype) ==
    IF qtype \in DOMAIN recs THEN recs[qtype]
    ELSE IF TypeA \in DOMAIN recs THEN recs[TypeA] ELSE <<>>

\* one iteration of the question loop for a question of a type other than ANY
AnswerTyped(recs, qtype) == IF qtype \in DOMAIN recs THEN recs[qtype] ELSE <<>>

\* mutant: the inner loop appends each type's first record only
AnswerAnyHeads(recs, ord) == [i \in DOMAIN ord |-> Head(recs[ord[i]])]

\* one iteration of the question loop for an ANY question; ord is the order in
\* which range visits the type map
AnswerAny(recs, ord) == Flatten([i \in DOMAIN ord |-> recs[ord[i]]])

\* the authority section
Authority(recs) == IF TypeNS \in DOMAIN recs THEN recs[TypeNS] ELSE <<>>

\* mutant: the AAAA records are appended before the A records
AdditionalSwapped(recs) ==
    (IF TypeAAAA \in DOMAIN recs THEN recs[TypeAAAA] ELSE <<>>)
      \o (IF TypeA \in DOMAIN recs THEN recs[TypeA] ELSE <<>>)

\* the additional section
Additional(recs) ==
    (IF TypeA \in DOMAIN recs THEN recs[TypeA] ELSE <<>>)
      \o (IF TypeAAAA \in DOMAIN recs THEN recs[TypeAAAA] ELSE <<>>)

\* the answer section after the whole question loop; ords[i] is the order in
\* which range visits the type map for question i
RECURSIVE HandlerAnswer(_, _, _)
HandlerAnswer(recs, qs, ords) ==
    IF qs = <<>> THEN <<>>
    ELSE (IF Head(qs) = TypeANY THEN AnswerAny(recs, Head(ords))
          ELSE AnswerTyped(recs, Head(qs)))
           \o HandlerAnswer(recs, Tail(qs), Tail(ords))

\* mutant: the authority section is built by appending to the stored NS
\* sequence in place
RecsAfterHandlerAliased(recs) ==
    IF TypeNS \in DOMAIN recs
    THEN [recs EXCEPT ![TypeNS] = recs[TypeNS] \o recs[TypeNS]]
    ELSE recs

\* the record set once the handler has returned: the handler reads recs.data
\* and appends only to the slices of its own message
RecsAfterHandler(recs) == recs

(***************************************************************************)
(* Messages.  A message is a record; origin is 0 for a message made by the *)
(* program (new(dns.Msg)) and the upstream's address for one received from *)
(* an upstream; reply tells whether SetReply/SetRcode was applied to it.   *)
(***************************************************************************)
NilMsg == [origin |-> -1]

NewMsg == [origin |-> 0, rcode |-> RcodeSuccess, reply |-> FALSE,
           answer |-> <<>>, ns |-> <<>>, extra |-> <<>>]

\* a response received from upstream ns, carrying status rc
UpstreamMsg(ns, rc) == [origin |-> ns, rcode |-> rc, reply |-> FALSE,
                        answer |-> <<>>, ns |-> <<>>, extra |-> <<>>]

\* m.SetRcode(r, rcode): m becomes a reply to r with status rcode
SetRcode(m, rcode) == [m EXCEPT !.rcode = rcode, !.reply = TRUE]

\* m.SetReply(r)
SetReply(m) == [m EXCEPT !.rcode = RcodeSuccess, !.reply = TRUE]

(***************************************************************************)
(* The proxy forwarder (proxyHandler, main.go).  The loop state is         *)
(* [m, err, contacted]: the message and error of the last exchange (err is *)
(* TRUE for a non-nil error) and the exchanges made so far.                *)
(***************************************************************************)
NilConfig == <<-1>>

\* the outcomes client.Exchange may have against upstream ns: a response
\* (whatever its status), an error without a message, an error with one
ExchangeOutcomes(ns) ==
    {[ok |-> TRUE, msg |-> UpstreamMsg(ns, rc)] : rc \in {RcodeSuccess, RcodeServerFailure}}
      \cup {[ok |-> FALSE, msg |-> NilMsg], [ok |-> FALSE, msg |-> UpstreamMsg(ns, RcodeSuccess)]}

\* var m *dns.Msg; err := errors.New("not proxied")
ProxyStart == [m |-> NilMsg, err |-> TRUE, contacted |-> <<>>]

\* m, _, err = client.Exchange(r, ns:port)
Exchange(st, ns, out) ==
    [m |-> out.msg, err |-> ~out.ok,
     contacted |-> Append(st.contacted, [ns |-> ns, ok |-> out.ok, msg |-> out.msg])]

\* mutant: the loop does not break on a successful exchange
LoopContinuesNoBreak(st, i, servers) == i <= Len(servers)

\* whether the range loop over clientConfig.Servers runs iteration i
LoopContinues(st, i, servers) == st.err /\ i <= Len(servers)

\* mutant: the forwarding switch is not consulted
LoopEnteredAlways(proxyFlag) == TRUE

\* if proxy { ... }
LoopEntered(proxyFlag) == proxyFlag

\* mutant: no message is made when the exchanges left none
ReplyNoNewMsg(st, rcode) ==
    IF st.err
    THEN [m |-> IF st.m = NilMsg THEN NilMsg ELSE SetRcode(st.m, RcodeServerFailure),
          rcode |-> RcodeServerFailure]
    ELSE [m |-> st.m, rcode |-> rcode]

\* mutant: the failure status is not mirrored onto the request
ReplyNoMirror(st, rcode) ==
    IF st.err
    THEN [m |-> SetRcode(IF st.m = NilMsg THEN NewMsg ELSE st.m, RcodeServerFailure),
          rcode |-> rcode]
    ELSE [m |-> st.m, rcode |-> rcode]

\* the message written and the request's Rcode after the error check; rcode
\* is the request's Rcode before it
Reply(st, rcode) ==
    IF st.err
    THEN [m |-> SetRcode(IF st.m = NilMsg THEN NewMsg ELSE st.m, RcodeServerFailure),
          rcode |-> RcodeServerFailure]
    ELSE [m |-> st.m, rcode |-> rcode]

\* the states in which the loop may end when run from iteration i on, one for
\* each way the exchanges may turn out
RECURSIVE LoopResults(_, _, _)
LoopResults(st, i, servers) ==
    IF LoopContinues(st, i, servers)
    THEN UNION {LoopResults(Exchange(st, servers[i], out), i + 1, servers)
                  : out \in ExchangeOutcomes(servers[i])}
    ELSE {st}

(***************************************************************************)
(* The request logger (logRequest, main.go): the lines logged for a        *)
(* request once its handler has returned.                                  *)
(***************************************************************************)
LogLines(verboseFlag, local, proxyFlag, questions, rcode) ==
    IF verboseFlag
    THEN [i \in DOMAIN questions |->
            [t |-> IF local THEN "O" ELSE IF proxyFlag THEN "P" ELSE "T",
             res |-> IF rcode = 0 THEN "S" ELSE "F",
             q |-> questions[i]]]
    ELSE <<>>

(***************************************************************************)
(* Strings are sequences of one-character strings.                         *)
(***************************************************************************)
UpperChars == <<"A", "B", "C", "D", "E", "F", "G", "H", "I", "J", "K", "L", "M",
                "N", "O", "P", "Q", "R", "S", "T", "U", "V", "W", "X", "Y", "Z">>
LowerChars == <<"a", "b", "c", "d", "e", "f", "g", "h", "i", "j", "k", "l", "m",
                "n", "o", "p", "q", "r", "s", "t", "u", "v", "w", "x", "y", "z">>
Digits == {"0", "1", "2", "3", "4", "5", "6", "7", "8", "9"}

IndexIn(chars, c) == CHOOSE i \in DOMAIN chars : chars[i] = c

\* strings.ToLower
ToLower(s) ==
    [i \in DOMAIN s |->
        IF \E k \in DOMAIN UpperChars : UpperChars[k] = s[i]
        THEN LowerChars[IndexIn(UpperChars, s[i])] ELSE s[i]]

\* mutant: the letters are left as they are
ToUpperIdentity(s) == s

\* strings.ToUpper
ToUpper(s) ==
    [i \in DOMAIN s |->
        IF \E k \in DOMAIN LowerChars : LowerChars[k] = s[i]
        THEN UpperChars[IndexIn(LowerChars, s[i])] ELSE s[i]]

\* dns.Fqdn: the name with a trailing dot
Fqdn(s) == IF s # <<>> /\ s[Len(s)] = "." THEN s ELSE s \o <<".">>

\* strings.HasSuffix
HasSuffix(s, suffix) ==
    /\ Len(s) >= Len(suffix)
    /\ SubSeq(s, Len(s) - Len(suffix) + 1, Len(s)) = suffix

\* strings.Join(parts, " ")
RECURSIVE Join(_)
Join(parts) ==
    IF parts = <<>> THEN <<>>
    ELSE IF Len(parts) = 1 THEN parts[1]
    ELSE parts[1] \o <<" ">> \o Join(Tail(parts))

\* the characters of v with " and \ escaped
RECURSIVE QuoteChars(_)
QuoteChars(v) ==
    IF v = <<>> THEN <<>>
    ELSE (IF Head(v) \in {"\"", "\\"} THEN <<"\\", Head(v)>> ELSE <<Head(v)>>)
           \o QuoteChars(Tail(v))

\* fmt.Sprintf("%q", v), for values without control characters
Quote(v) == <<"\"">> \o QuoteChars(v) \o <<"\"">>

IsNumber(tok) == tok # <<>> /\ \A i \in DOMAIN tok : tok[i] \in Digits

(***************************************************************************)
(* dns.NewRR: the line is split into tokens at the blanks outside quotes;  *)
(* a line that is a comment yields no record and no error; the owner must  *)
(* be a domain name, the TTL a number, and the data must fit the type (a   *)
(* record without data is accepted, as for dynamic updates).               *)
(***************************************************************************)
NoErr == [kind |-> "nil", line |-> <<>>]
NoRR == [name |-> <<>>, ttl |-> <<>>, rrtype |-> 0, rdata |-> <<>>]

\* the tokens of s from position i on; cur is the token being read, inq
\* whether a quote is open
RECURSIVE Scan(_, _, _, _)
Scan(s, i, cur, inq) ==
    IF i > Len(s) THEN (IF cur = <<>> THEN <<>> ELSE <<cur>>)
    ELSE IF s[i] = " " /\ ~inq
         THEN (IF cur = <<>> THEN <<>> ELSE <<cur>>) \o Scan(s, i + 1, <<>>, FALSE)
    ELSE IF s[i] = "\\" /\ i < Len(s)
         THEN Scan(s, i + 2, cur \o <<s[i], s[i + 1]>>, inq)
         ELSE Scan(s, i + 1, Append(cur, s[i]), IF s[i] = "\"" THEN ~inq ELSE inq)

Fields(s) == Scan(s, 1, <<>>, FALSE)

\* a domain name: not empty, no empty label but the root
IsName(tok) ==
    /\ tok # <<>>
    /\ tok = <<".">> \/ tok[1] # "."
    /\ \A i \in 1..(Len(tok) - 1) : ~(tok[i] = "." /\ tok[i + 1] = ".")
    /\ \A i \in DOMAIN tok : tok[i] \notin {"\"", ";", " "}

\* an IPv4 address, as far as its characters go: four groups of digits
IsIPv4(tok) ==
    /\ tok # <<>> /\ tok[1] # "." /\ tok[Len(tok)] # "."
    /\ Cardinality({i \in DOMAIN tok : tok[i] = "."}) = 3
    /\ \A i \in 1..(Len(tok) - 1) : ~(tok[i] = "." /\ tok[i + 1] = ".")
    /\ \A i \in DOMAIN tok : tok[i] \in Digits \cup {"."}

\* an IPv6 address, as far as its characters go
IsIPv6(tok) ==
    /\ \E i \in DOMAIN tok : tok[i] = ":"
    /\ \A i \in DOMAIN tok : tok[i] \in Digits \cup {":", "a", "b", "c", "d", "e", "f"}

\* mutant: SRV is supported too
supportedTypesWithSRV ==
    (<<"A">> :> TypeA) @@ (<<"A", "A", "A", "A">> :> TypeAAAA)
      @@ (<<"C", "A", "A">> :> TypeCAA) @@ (<<"C", "N", "A", "M", "E">> :> TypeCNAME)
      @@ (<<"M", "X">> :> TypeMX) @@ (<<"N", "S">> :> TypeNS)
      @@ (<<"P", "T", "R">> :> TypePTR) @@ (<<"T", "X", "T">> :> TypeTXT)
      @@ (<<"S", "R", "V">> :> 33)

\* the map from type names to type codes
supportedTypes ==
    (<<"A">> :> TypeA) @@ (<<"A", "A", "A", "A">> :> TypeAAAA)
      @@ (<<"C", "A", "A">> :> TypeCAA) @@ (<<"C", "N", "A", "M", "E">> :> TypeCNAME)
      @@ (<<"M", "X">> :> TypeMX) @@ (<<"N", "S">> :> TypeNS)
      @@ (<<"P", "T", "R">> :> TypePTR) @@ (<<"T", "X", "T">> :> TypeTXT)

\* whether the data tokens fit a record of type code t
RdataFits(t, rdata) ==
    \/ rdata = <<>>
    \/ t = TypeA /\ Len(rdata) = 1 /\ IsIPv4(rdata[1])
    \/ t = TypeAAAA /\ Len(rdata) = 1 /\ IsIPv6(rdata[1])
    \/ t \in {TypeNS, TypeCNAME, TypePTR} /\ Len(rdata) = 1 /\ IsName(rdata[1])
    \/ t = TypeMX /\ Len(rdata) = 2 /\ IsNumber(rdata[1]) /\ IsName(rdata[2])
    \/ t = TypeTXT /\ Len(rdata) >= 1
    \/ t = TypeCAA /\ Len(rdata) = 3 /\ IsNumber(rdata[1])

NewRR(s) ==
    LET toks == Fields(s)
        bad == [rr |-> NoRR, err |-> [kind |-> "rr", line |-> s]]
    IN IF toks = <<>> \/ toks[1][1] = ";" THEN [rr |-> NoRR, err |-> NoErr]
       ELSE IF Len(toks) < 4 THEN bad
       ELSE IF ~IsName(toks[1]) \/ ~IsNumber(toks[2]) THEN bad
       ELSE IF toks[3] # <<"I", "N">> \/ toks[4] \notin DOMAIN supportedTypes THEN bad
       ELSE IF ~RdataFits(supportedTypes[toks[4]], SubSeq(toks, 5, Len(toks))) THEN bad
       ELSE [rr |-> [name |-> Fqdn(toks[1]), ttl |-> toks[2],
                     rrtype |-> supportedTypes[toks[4]],
                     rdata |-> SubSeq(toks, 5, Len(toks))],
             err |-> NoErr]

(***************************************************************************)
(* The zone normaliser (types.go).  A field map is a record of its four    *)
(* keys, Absent marking a key the map does not hold, with nil telling the  *)
(* nil map from the empty one.                                             *)
(***************************************************************************)
Absent == <<"absent">>

NilFieldMap == [nil |-> TRUE, hostname |-> Absent, ttl |-> Absent,
                priority |-> Absent, value |-> Absent]

\* the ttl flag's default
defaultTTL == <<"3", "6", "0", "0">>

\* mutant: every host name but @ is taken as relative
OwnerNameNoSuffixCheck(fqdn, m) ==
    IF m.hostname # Absent
    THEN IF m.hostname = <<"@">> THEN fqdn
         ELSE m.hostname \o <<".">> \o fqdn
    ELSE fqdn

\* the owner name of the record line
OwnerName(fqdn, m) ==
    IF m.hostname # Absent
    THEN IF m.hostname = <<"@">> THEN fqdn
         ELSE IF ~HasSuffix(m.hostname, fqdn) THEN m.hostname \o <<".">> \o fqdn
         ELSE m.hostname
    ELSE fqdn

\* the parts of the record line, in order
LineParts(typ, fqdn, m) ==
    <<OwnerName(fqdn, m)>>
      \o <<IF m.ttl # Absent THEN m.ttl ELSE defaultTTL>>
      \o <<<<"I", "N">>, typ>>
      \o (IF typ = <<"M", "X">> /\ m.priority # Absent THEN <<m.priority>> ELSE <<>>)
      \o (IF m.value # Absent
          THEN <<IF typ = <<"T", "X", "T">> THEN Quote(m.value) ELSE m.value>>
          ELSE <<>>)

\* mutant: the nil map is treated as the empty map
rrFromMapNoNilCheck(typ, fqdn, m) == NewRR(Join(LineParts(typ, fqdn, m)))

\* records.rrFromMap
rrFromMap(typ, fqdn, m) ==
    IF m.nil THEN [rr |-> NoRR, err |-> NoErr]
    ELSE NewRR(Join(LineParts(typ, fqdn, m)))

\* mutant: the type's sequence is created before the record is looked at
RECURSIVE UnmarshalSlotsKeyFirst(_, _, _)
UnmarshalSlotsKeyFirst(data, fqdn, work) ==
    IF work = <<>> THEN [data |-> data, err |-> NoErr]
    ELSE LET typ == ToUpper(work[1][1])
         IN IF typ \notin DOMAIN supportedTypes
            THEN UnmarshalSlotsKeyFirst(data, fqdn, Tail(work))
            ELSE LET iType == supportedTypes[typ]
                     res == rrFromMap(typ, fqdn, work[1][2])
                     old == IF iType \in DOMAIN data THEN data[iType] ELSE <<>>
                 IN IF res.err # NoErr THEN [data |-> data, err |-> res.err]
                    ELSE UnmarshalSlotsKeyFirst(
                           (iType :> (old \o (IF res.rr # NoRR THEN <<res.rr>> ELSE <<>>)))
                             @@ data,
                           fqdn, Tail(work))

\* the loops of records.UnmarshalJSON over work, the <<type name, field map>>
\* pairs in the order the loops visit them; data is recs.data
RECURSIVE UnmarshalSlots(_, _, _)
UnmarshalSlots(data, fqdn, work) ==
    IF work = <<>> THEN [data |-> data, err |-> NoErr]
    ELSE LET typ == ToUpper(work[1][1])
         IN IF typ \notin DOMAIN supportedTypes
            THEN UnmarshalSlots(data, fqdn, Tail(work))
            ELSE LET iType == supportedTypes[typ]
                     res == rrFromMap(typ, fqdn, work[1][2])
                 IN IF res.err # NoErr THEN [data |-> data, err |-> res.err]
                    ELSE IF res.rr # NoRR
                    THEN UnmarshalSlots(
                           (iType :> ((IF iType \in DOMAIN data THEN data[iType] ELSE <<>>)
                                        \o <<res.rr>>)) @@ data,
                           fqdn, Tail(work))
                    ELSE UnmarshalSlots(data, fqdn, Tail(work))

\* records.UnmarshalJSON on a fresh record set.  An entry of the document is
\* bad when its JSON is not an object of arrays of objects of strings; else
\* types maps its type names to their field maps.  ord is the order in which
\* range visits the entry's type names
recordsUnmarshalJSON(fqdn, entry, ord) ==
    IF entry.bad THEN [data |-> <<>>, err |-> [kind |-> "json", line |-> <<>>]]
    ELSE UnmarshalSlots(<<>>, fqdn,
           Flatten([i \in DOMAIN ord |->
                      [j \in DOMAIN entry.types[ord[i]] |->
                         <<ord[i], entry.types[ord[i]][j]>>]]))

(***************************************************************************)
(* Bounded inputs of the handler.                                          *)
(***************************************************************************)
\* the types populated in the bounded record sets: the three the handler
\* singles out and one it does not
StoredTypes == {TypeA, TypeAAAA, TypeNS, TypeMX}

\* the question types tried: the stored ones, ANY, and one never stored
QTypes == StoredTypes \cup {TypeANY, TypeCNAME}

\* an abstract resource record of type t
RR(t, n) == [rrtype |-> t, id |-> n]

\* the stored sequences tried for type t, both of the longest length: distinct
\* records in order, and one record repeated
TypeSeqs(t) ==
    {[i \in 1..MaxRecs |-> RR(t, i)], [i \in 1..MaxRecs |-> RR(t, 1)]}

RecordSets ==
    UNION {{f \in [S -> UNION {TypeSeqs(t) : t \in S}] : \A t \in S : f[t] \in TypeSeqs(t)}
             : S \in SUBSET StoredTypes}

QuestionLists == UNION {[1..n -> QTypes] : n \in 0..MaxQuestions}

\* the resolver configurations tried: lists of distinct upstream addresses
ServerLists ==
    UNION {{l \in [1..n -> 1..MaxServers] : \A i, j \in 1..n : l[i] = l[j] => i = j}
             : n \in 0..MaxServers}

\* the questions of the queries forwarded
ProxyQuestionLists == UNION {[1..n -> {TypeA, TypeMX}] : n \in 0..MaxQuestions}

(***************************************************************************)
(* Bounded inputs of the normaliser.                                       *)
(***************************************************************************)
\* "a.t.", "A.t" (the same domain, written differently) and "b.t."
DomainKeys == {<<"a", ".", "t", ".">>, <<"A", ".", "t">>, <<"b", ".", "t", ".">>}

\* "A", "a", "NS", "MX", "TXT" and the unsupported "SRV"
TypeNames == {<<"A">>, <<"a">>, <<"N", "S">>, <<"M", "X">>, <<"T", "X", "T">>,
              <<"S", "R", "V">>}

\* a field map every supported type tried accepts: priority 10, value 1.1.1.1
BaseFieldMap == [nil |-> FALSE, hostname |-> Absent, ttl |-> Absent,
                 priority |-> <<"1", "0">>,
                 value |-> <<"1", ".", "1", ".", "1", ".", "1">>]

\* the base map, and the maps that differ from it in one key
FieldMaps ==
    {BaseFieldMap, NilFieldMap}
      \cup {[BaseFieldMap EXCEPT !.ttl = v] : v \in {<<"6", "0">>, <<"x">>}}
      \cup {[BaseFieldMap EXCEPT !.hostname = v] :
              v \in {<<"@">>, <<"w">>, <<"w", ".", "a", ".", "t", ".">>}}
      \cup {[BaseFieldMap EXCEPT !.priority = Absent]}
      \cup {[BaseFieldMap EXCEPT !.value = v] : v \in {<<"x">>, Absent}}

\* the lists of field maps tried under one type name: at most one map of a
\* list is not the base map
SlotLists ==
    UNION {{[i \in 1..n |-> BaseFieldMap]}
             \cup {[i \in 1..n |-> IF i = k THEN m ELSE BaseFieldMap]
                     : k \in 1..n, m \in FieldMaps}
             : n \in 0..MaxSlots}

GoodEntry == [bad |-> FALSE, types |-> (<<"A">> :> <<BaseFieldMap>>)]
RejectedEntry ==
    [bad |-> FALSE, types |-> (<<"A">> :> <<[BaseFieldMap EXCEPT !.value = <<"x">>]>>)]
BadEntry == [bad |-> TRUE, types |-> <<>>]

\* the entries over the lists of field maps lists: one type name with any of
\* the lists, alone or, for the lists of one or two maps, beside "A" with the
\* base map; the empty entry; the bad entry
EntriesOver(lists) ==
    {[bad |-> FALSE, types |-> (tn :> l)] : tn \in TypeNames, l \in lists}
      \cup {[bad |-> FALSE, types |-> (tn :> l) @@ (<<"A">> :> <<BaseFieldMap>>)]
              : tn \in TypeNames \ {<<"A">>}, l \in {l \in lists : Len(l) \in {1, 2}}}
      \cup {[bad |-> FALSE, types |-> <<>>], BadEntry}

Entries == EntriesOver(SlotLists)

\* the entries whose lists hold one field map, accepted or rejected
CaseEntries == EntriesOver({GoodEntry.types[<<"A">>], RejectedEntry.types[<<"A">>]})

\* the documents over entries: up to n domain keys, one of them with any of
\* the entries and the others with the good or the rejected one; and the
\* document that is not a JSON object
DocumentsOver(n, entries) ==
    {[bad |-> TRUE, domains |-> <<>>], [bad |-> FALSE, domains |-> <<>>]}
      \cup UNION {UNION {{[bad |-> FALSE, domains |-> (k :> e) @@ g]
                           : e \in entries, g \in [S \ {k} -> {GoodEntry, RejectedEntry}]}
                           : k \in S}
                    : S \in {T \in SUBSET DomainKeys : T # {} /\ Cardinality(T) <= n}}

\* the documents tried
Documents(n) == DocumentsOver(n, Entries)

\* the documents tried for the letter case of keys and type names
CaseDocuments(n) == DocumentsOver(n, CaseEntries)

VARIABLES
    hRecs,      \* the record set the handler closes over
    hQuestions, \* r.Question, as question types
    hIdx,       \* index of the next question of the loop
    hAnswer, hNs, hExtra, hRcode,   \* the reply m
    hPc,        \* "answer", "write", "log", "done"; "idle" when not run
    hWritten,   \* messages given to w.WriteMsg
    hLog        \* lines logged by logRequest

resVars == <<hRecs, hQuestions, hIdx, hAnswer, hNs, hExtra, hRcode, hPc, hWritten,
             hLog>>

VARIABLES
    pProxy,     \* the proxy flag
    pVerbose,   \* the v flag
    pServers,   \* clientConfig.Servers, NilConfig when clientConfig is nil
    pReq,       \* the request r: its questions and its Rcode
    pSt,        \* the loop state [m, err, contacted]
    pIdx,       \* index of the next server of the loop
    pPc,        \* "start", "loop", "check", "log", "done"; "idle" when not run
    pWritten,   \* messages given to w.WriteMsg
    pLog        \* lines logged by logRequest

proxVars == <<pProxy, pVerbose, pServers, pReq, pSt, pIdx, pPc, pWritten, pLog>>

Nets == <<"tcp", "udp">>

VARIABLES
    mainPc,     \* main: "parse", "config", "read", "load", "spawn", "signal",
                \*       "cancel", "wait", "exited", "fatal"
    proxy,      \* the proxy flag
    verbose,    \* the v flag
    servers,    \* clientConfig.Servers, NilConfig while clientConfig is nil
    store,      \* d, the record store: domain -> type map
    spawned,    \* how many of Nets the start loop has been through
    wg,         \* the wait group's counter
    ctxDone,    \* whether cancel() has been called
    mux,        \* patterns registered with dns.HandleFunc
    tPc,        \* per net, the serve goroutine: "NotSpawned", "Starting",
                \*   "Listening", "Running", "ShuttingDown", "Returned", "Stopped"
    sdPc,       \* per net, the goroutine waiting on ctx.Done(): "none",
                \*   "waiting", "done"
    started,    \* per net, the server's started field
    errLog,     \* errors logged by serve: <<net, "serve">>, <<net, "shutdown">>
    last,       \* the query handled last
    mainErr     \* main's err: "nil", "resolv", "read", "load"

runVars == <<mainPc, proxy, verbose, servers, store, spawned, wg, ctxDone, mux,
             tPc, sdPc, started, errLog, last, mainErr>>

VARIABLES
    ldDoc,      \* the document given to the loader
    ldNil,      \* whether the map d given to the loader is nil
    ldStore,    \* d: normalised domain name -> [fqdn, data]
    ldTodo,     \* the domain keys the range loop has yet to visit
    ldErr,      \* the error returned
    ldPc        \* "start", "range", "done"

loadVars == <<ldDoc, ldNil, ldStore, ldTodo, ldErr, ldPc>>

vars == <<resVars, proxVars, runVars, loadVars>>

LoadIdle ==
    /\ ldDoc = [bad |-> FALSE, domains |-> <<>>] /\ ldNil = FALSE
    /\ ldStore = <<>> /\ ldTodo = {} /\ ldErr = NoErr /\ ldPc = "done"

NetSet == {Nets[i] : i \in DOMAIN Nets}

NoQuery == [net |-> "none"]

RunIdle ==
    /\ mainPc = "fatal" /\ proxy = FALSE /\ verbose = FALSE /\ servers = NilConfig
    /\ store = <<>> /\ spawned = 0 /\ wg = 0 /\ ctxDone = FALSE /\ mux = {}
    /\ tPc = [t \in NetSet |-> "NotSpawned"]
    /\ sdPc = [t \in NetSet |-> "none"]
    /\ started = [t \in NetSet |-> FALSE]
    /\ errLog = {} /\ last = NoQuery /\ mainErr = "nil"

ProxyIdle ==
    /\ pProxy = FALSE /\ pVerbose = FALSE /\ pServers = NilConfig
    /\ pReq = [questions |-> <<>>, rcode |-> RcodeSuccess]
    /\ pSt = ProxyStart /\ pIdx = 1 /\ pPc = "idle"
    /\ pWritten = <<>> /\ pLog = <<>>

ResolveIdle ==
    /\ hRecs = <<>> /\ hQuestions = <<>> /\ hIdx = 1
    /\ hAnswer = <<>> /\ hNs = <<>> /\ hExtra = <<>>
    /\ hRcode = RcodeSuccess /\ hPc = "idle" /\ hWritten = <<>>
    /\ hLog = <<>>

ResolveInit ==
    /\ hRecs \in RecordSets
    /\ hQuestions \in QuestionLists
    /\ hIdx = 1
    /\ hAnswer = <<>> /\ hNs = <<>> /\ hExtra = <<>>
    /\ hRcode = RcodeSuccess
    /\ hPc = "answer"
    /\ hWritten = <<>>
    /\ hLog = <<>>
    /\ ProxyIdle /\ RunIdle /\ LoadIdle

HandlerAnswerTyped ==
    /\ hPc = "answer" /\ hIdx <= Len(hQuestions)
    /\ hQuestions[hIdx] # TypeANY
    /\ hAnswer' = hAnswer \o AnswerTyped(hRecs, hQuestions[hIdx])
    /\ hIdx' = hIdx + 1
    /\ UNCHANGED <<hRecs, hQuestions, hNs, hExtra, hRcode, hPc, hWritten,
                   hLog, proxVars, runVars, loadVars>>

HandlerAnswerAny ==
    /\ hPc = "answer" /\ hIdx <= Len(hQuestions)
    /\ hQuestions[hIdx] = TypeANY
    /\ \E ord \in RangeOrders(DOMAIN hRecs) :
          hAnswer' = hAnswer \o AnswerAny(hRecs, ord)
    /\ hIdx' = hIdx + 1
    /\ UNCHANGED <<hRecs, hQuestions, hNs, hExtra, hRcode, hPc, hWritten,
                   hLog, proxVars, runVars, loadVars>>

HandlerSections ==
    /\ hPc = "answer" /\ hIdx > Len(hQuestions)
    /\ hNs' = hNs \o Authority(hRecs)
    /\ hExtra' = hExtra \o Additional(hRecs)
    /\ hPc' = "write"
    /\ UNCHANGED <<hRecs, hQuestions, hIdx, hAnswer, hRcode, hWritten,
                   hLog, proxVars, runVars, loadVars>>

HandlerWrite ==
    /\ hPc = "write"
    /\ hWritten' = Append(hWritten, [answer |-> hAnswer, ns |-> hNs, extra |-> hExtra, rcode |-> hRcode])
    /\ hPc' = "log"
    /\ UNCHANGED <<hRecs, hQuestions, hIdx, hAnswer, hNs, hExtra, hRcode,
                   hLog, proxVars, runVars, loadVars>>

\* logRequest, after the handler has returned: the v flag is read, the
\* request's Rcode is as it came, and the proxy flag is not read for a local
\* answer
HandlerLog ==
    /\ hPc = "log"
    /\ \E verboseFlag \in BOOLEAN :
          hLog' = hLog \o LogLines(verboseFlag, TRUE, FALSE, hQuestions, RcodeSuccess)
    /\ hPc' = "done"
    /\ UNCHANGED <<hRecs, hQuestions, hIdx, hAnswer, hNs, hExtra, hRcode, hWritten,
                   proxVars, runVars, loadVars>>

ResolveNext ==
    \/ HandlerAnswerTyped
    \/ HandlerAnswerAny
    \/ HandlerSections
    \/ HandlerWrite
    \/ HandlerLog

SpecResolve == ResolveInit /\ [][ResolveNext]_vars
(***************************************************************************)
(* SpecProxy: the catch-all handler, logRequest(false, proxyHandler),      *)
(* applied to one request under bounded settings of the globals it reads.  *)
(* main sets client and clientConfig whenever proxy is set, so proxy with  *)
(* a nil clientConfig is not drawn.                                        *)
(***************************************************************************)
ProxyInit ==
    /\ pProxy \in BOOLEAN
    /\ pVerbose \in BOOLEAN
    /\ pServers \in ServerLists \cup {NilConfig}
    /\ pProxy => pServers # NilConfig
    /\ pReq \in [questions : ProxyQuestionLists, rcode : {RcodeSuccess}]
    /\ pSt = ProxyStart /\ pIdx = 1 /\ pPc = "start"
    /\ pWritten = <<>> /\ pLog = <<>>
    /\ ResolveIdle /\ RunIdle /\ LoadIdle

\* if proxy: the loop is entered, or skipped
ProxyEnter ==
    /\ pPc = "start"
    /\ pPc' = IF LoopEntered(pProxy) THEN IF pServers = NilConfig THEN "panic" ELSE "loop"
               ELSE "check"
    /\ UNCHANGED <<pProxy, pVerbose, pServers, pReq, pSt, pIdx, pWritten, pLog, resVars, runVars, loadVars>>

\* one iteration of the loop: the exchange with the next server
ProxyExchange ==
    /\ pPc = "loop" /\ LoopContinues(pSt, pIdx, pServers)
    /\ \E out \in ExchangeOutcomes(pServers[pIdx]) :
          pSt' = Exchange(pSt, pServers[pIdx], out)
    /\ pIdx' = pIdx + 1
    /\ UNCHANGED <<pProxy, pVerbose, pServers, pReq, pPc, pWritten, pLog, resVars, runVars, loadVars>>

\* the loop ends: by break, or with the list exhausted
ProxyLoopEnd ==
    /\ pPc = "loop" /\ ~LoopContinues(pSt, pIdx, pServers)
    /\ pPc' = "check"
    /\ UNCHANGED <<pProxy, pVerbose, pServers, pReq, pSt, pIdx, pWritten, pLog, resVars, runVars, loadVars>>

\* the error check and w.WriteMsg(m)
ProxyReply ==
    /\ pPc = "check"
    /\ LET rep == Reply(pSt, pReq.rcode) IN
          /\ pReq' = [pReq EXCEPT !.rcode = rep.rcode]
          /\ pWritten' = Append(pWritten, rep.m)
          /\ pSt' = [pSt EXCEPT !.m = rep.m]
    /\ pPc' = "log"
    /\ UNCHANGED <<pProxy, pVerbose, pServers, pIdx, pLog, resVars, runVars, loadVars>>

\* logRequest, after the handler has returned
ProxyLog ==
    /\ pPc = "log"
    /\ pLog' = pLog \o LogLines(pVerbose, FALSE, pProxy, pReq.questions, pReq.rcode)
    /\ pPc' = "done"
    /\ UNCHANGED <<pProxy, pVerbose, pServers, pReq, pSt, pIdx, pWritten, resVars, runVars, loadVars>>

ProxyNext ==
    \/ ProxyEnter
    \/ ProxyExchange
    \/ ProxyLoopEnd
    \/ ProxyReply
    \/ ProxyLog

SpecProxy == ProxyInit /\ [][ProxyNext]_vars

(***************************************************************************)
(* SpecHandlers: one request given to either handler.                      *)
(***************************************************************************)
HandlersInit == ResolveInit \/ ProxyInit

HandlersNext == ResolveNext \/ ProxyNext

SpecHandlers == HandlersInit /\ [][HandlersNext]_vars

(***************************************************************************)
(* Spec: the process.  main parses the flags, reads the resolver           *)
(* configuration and the document, starts one serve goroutine per net and  *)
(* waits for a signal; each serve goroutine registers the handlers, starts *)
(* a goroutine that waits for the cancellation, and listens.  A query is   *)
(* handled in one step, handler and logger together.                       *)
(*                                                                         *)
(* dns.Server: ListenAndServe sets started once the listener is bound and  *)
(* returns when the listener fails or is shut down; Shutdown returns the   *)
(* error "server not started" while started is unset, and otherwise        *)
(* unsets it and closes the listener.                                      *)
(***************************************************************************)
LocalDomain == "a.test."

QueryNames == {LocalDomain, "b.test."}

\* the record sets of the stores the process is run with
RunRecordSets ==
    {rs \in RecordSets :
        /\ DOMAIN rs \in {{}, {TypeA, TypeNS}}
        /\ \A t \in DOMAIN rs : rs[t] = [i \in 1..MaxRecs |-> RR(t, i)]}

\* the stores a successful load may leave: no domain, or the local domain
Stores == {<<>>} \cup {[d \in {LocalDomain} |-> rs] : rs \in RunRecordSets}

\* the server hands a handler queries of one question
\* the server lists a resolver configuration file is read to: its first n
\* name servers
ResolvConfLists == {[i \in 1..n |-> i] : n \in 0..MaxServers}

RunQuestionLists == {<<q>> : q \in {TypeA, TypeANY}}

Alive == mainPc \notin {"exited", "fatal"}

Init ==
    /\ mainPc = "parse" /\ proxy = TRUE /\ verbose = TRUE /\ servers = NilConfig
    /\ store = <<>> /\ spawned = 0 /\ wg = 0 /\ ctxDone = FALSE /\ mux = {}
    /\ tPc = [t \in NetSet |-> "NotSpawned"]
    /\ sdPc = [t \in NetSet |-> "none"]
    /\ started = [t \in NetSet |-> FALSE]
    /\ errLog = {} /\ last = NoQuery /\ mainErr = "nil"
    /\ ResolveIdle /\ ProxyIdle /\ LoadIdle

\* flag.Parse and the data file check
MainParse ==
    /\ mainPc = "parse"
    /\ \E px \in BOOLEAN, vb \in BOOLEAN, dataFileGiven \in BOOLEAN :
          /\ proxy' = px /\ verbose' = vb
          /\ mainPc' = IF dataFileGiven THEN "config" ELSE "fatal"
    /\ UNCHANGED <<servers, store, spawned, wg, ctxDone, mux, tPc, sdPc, started,
                   errLog, last, mainErr, resVars, proxVars,
                   loadVars>>

\* mutant: an error is never fatal
FatalOnNever(e) == FALSE

\* if err != nil { log.Fatal(...) }
FatalOn(e) == e # "nil"

\* if proxy: the resolver configuration is read (clientConfig stays nil when
\* that fails); it must name a server
MainConfig ==
    /\ mainPc = "config"
    /\ IF proxy
       THEN \E cfg \in {NilConfig} \cup ResolvConfLists :
               LET e == IF cfg = NilConfig THEN "resolv" ELSE "nil"
               IN /\ servers' = cfg /\ mainErr' = e
                  /\ mainPc' = IF FatalOn(e) THEN "fatal"
                                ELSE IF Len(cfg) = 0 THEN "fatal" ELSE "read"
       ELSE mainPc' = "read" /\ UNCHANGED <<servers, mainErr>>
    /\ UNCHANGED <<proxy, verbose, store, spawned, wg, ctxDone, mux, tPc, sdPc,
                   started, errLog, last, resVars, proxVars, loadVars>>

\* ioutil.ReadFile(dataFile)
MainRead ==
    /\ mainPc = "read"
    /\ \E e \in {"nil", "read"} :
          /\ mainErr' = e
          /\ mainPc' = IF FatalOn(e) THEN "fatal" ELSE "load"
    /\ UNCHANGED <<proxy, verbose, servers, store, spawned, wg, ctxDone, mux, tPc,
                   sdPc, started, errLog, last, resVars, proxVars, loadVars>>

\* d := make(data); json.Unmarshal(b, &d)
MainLoad ==
    /\ mainPc = "load"
    /\ \E e \in {"nil", "load"} :
          /\ mainErr' = e
          /\ IF e = "nil" THEN store' \in Stores ELSE UNCHANGED store
          /\ mainPc' = IF FatalOn(e) THEN "fatal" ELSE "spawn"
    /\ UNCHANGED <<proxy, verbose, servers, spawned, wg, ctxDone, mux, tPc, sdPc,
                   started, errLog, last, resVars, proxVars, loadVars>>

\* one iteration of the start loop: wg.Add(1); go serve(...); after the last
\* one main blocks on the signal channel
MainSpawn ==
    /\ mainPc = "spawn" /\ spawned < Len(Nets)
    /\ wg' = wg + 1
    /\ tPc' = [tPc EXCEPT ![Nets[spawned + 1]] = "Starting"]
    /\ spawned' = spawned + 1
    /\ mainPc' = IF spawned + 1 = Len(Nets) THEN "signal" ELSE "spawn"
    /\ UNCHANGED <<proxy, verbose, servers, store, ctxDone, mux, sdPc, started,
                   errLog, last, mainErr, resVars, proxVars,
                   loadVars>>

\* s := <-chs: SIGINT or SIGTERM arrives
MainSignal ==
    /\ mainPc = "signal"
    /\ mainPc' = "cancel"
    /\ UNCHANGED <<proxy, verbose, servers, store, spawned, wg, ctxDone, mux, tPc,
                   sdPc, started, errLog, last, mainErr, resVars, proxVars,
                   loadVars>>

\* cancel()
MainCancel ==
    /\ mainPc = "cancel"
    /\ ctxDone' = TRUE
    /\ mainPc' = "wait"
    /\ UNCHANGED <<proxy, verbose, servers, store, spawned, wg, mux, tPc, sdPc,
                   started, errLog, last, mainErr, resVars, proxVars,
                   loadVars>>

\* mutant: the wait returns with one goroutine still counted
WaitReturnsEarly(n) == n <= 1

\* whether wg.Wait() returns with the counter at n
WaitReturns(n) == n = 0

\* wg.Wait() returns and main ends
MainWait ==
    /\ mainPc = "wait" /\ WaitReturns(wg)
    /\ mainPc' = "exited"
    /\ UNCHANGED <<proxy, verbose, servers, store, spawned, wg, ctxDone, mux, tPc,
                   sdPc, started, errLog, last, mainErr, resVars, proxVars,
                   loadVars>>

\* serve: the handlers are registered, the goroutine waiting for the
\* cancellation is started, and ListenAndServe is called
ServeRegister(t) ==
    /\ Alive /\ tPc[t] = "Starting"
    /\ mux' = mux \cup DOMAIN store \cup {"."}
    /\ sdPc' = [sdPc EXCEPT ![t] = "waiting"]
    /\ tPc' = [tPc EXCEPT ![t] = "Listening"]
    /\ UNCHANGED <<mainPc, proxy, verbose, servers, store, spawned, wg, ctxDone,
                   started, errLog, last, mainErr, resVars, proxVars,
                   loadVars>>

\* ListenAndServe binds the listener and serves
ListenOk(t) ==
    /\ Alive /\ tPc[t] = "Listening"
    /\ started' = [started EXCEPT ![t] = TRUE]
    /\ tPc' = [tPc EXCEPT ![t] = "Running"]
    /\ UNCHANGED <<mainPc, proxy, verbose, servers, store, spawned, wg, ctxDone,
                   mux, sdPc, errLog, last, mainErr, resVars, proxVars,
                   loadVars>>

\* ListenAndServe fails to bind and returns the error
ListenFail(t) ==
    /\ Alive /\ tPc[t] = "Listening"
    /\ errLog' = errLog \cup {<<t, "serve">>}
    /\ tPc' = [tPc EXCEPT ![t] = "Returned"]
    /\ UNCHANGED <<mainPc, proxy, verbose, servers, store, spawned, wg, ctxDone,
                   mux, sdPc, started, last, mainErr, resVars, proxVars,
                   loadVars>>

\* the listener fails while serving and ListenAndServe returns the error
ServeFail(t) ==
    /\ Alive /\ tPc[t] = "Running"
    /\ errLog' = errLog \cup {<<t, "serve">>}
    /\ tPc' = [tPc EXCEPT ![t] = "Returned"]
    /\ UNCHANGED <<mainPc, proxy, verbose, servers, store, spawned, wg, ctxDone,
                   mux, sdPc, started, last, mainErr, resVars, proxVars,
                   loadVars>>

\* <-ctx.Done(); err := server.Shutdown(); the error, if any, is logged
ShutdownCall(t) ==
    /\ Alive /\ sdPc[t] = "waiting" /\ ctxDone
    /\ sdPc' = [sdPc EXCEPT ![t] = "done"]
    /\ IF started[t]
       THEN /\ started' = [started EXCEPT ![t] = FALSE]
            /\ tPc' = [tPc EXCEPT ![t] = IF @ = "Running" THEN "ShuttingDown" ELSE @]
            /\ UNCHANGED errLog
       ELSE /\ errLog' = errLog \cup {<<t, "shutdown">>}
            /\ UNCHANGED <<started, tPc>>
    /\ UNCHANGED <<mainPc, proxy, verbose, servers, store, spawned, wg, ctxDone,
                   mux, last, mainErr, resVars, proxVars,
                   loadVars>>

\* ListenAndServe returns after the shutdown
ServeReturn(t) ==
    /\ Alive /\ tPc[t] = "ShuttingDown"
    /\ tPc' = [tPc EXCEPT ![t] = "Returned"]
    /\ UNCHANGED <<mainPc, proxy, verbose, servers, store, spawned, wg, ctxDone,
                   mux, sdPc, started, errLog, last, mainErr, resVars, proxVars,
                   loadVars>>

\* serve returns and the goroutine calls wg.Done()
ServeDone(t) ==
    /\ Alive /\ tPc[t] = "Returned"
    /\ wg' = wg - 1
    /\ tPc' = [tPc EXCEPT ![t] = "Stopped"]
    /\ UNCHANGED <<mainPc, proxy, verbose, servers, store, spawned, ctxDone, mux,
                   sdPc, started, errLog, last, mainErr, resVars, proxVars,
                   loadVars>>

\* a query for a registered domain arrives on net t:
\* logRequest(true, handler(recs))
QueryLocal(t) ==
    /\ Alive /\ tPc[t] = "Running"
    /\ \E name \in QueryNames \cap mux, qs \in RunQuestionLists :
          LET recs == store[name] IN
          \E ords \in [1..Len(qs) -> RangeOrders(DOMAIN recs)] :
             /\ last' = [net |-> t, name |-> name, questions |-> qs, local |-> TRUE,
                         written |-> <<[SetReply(NewMsg) EXCEPT
                                          !.answer = HandlerAnswer(recs, qs, ords),
                                          !.ns = Authority(recs),
                                          !.extra = Additional(recs)]>>,
                         rcode |-> RcodeSuccess,
                         log |-> LogLines(verbose, TRUE, proxy, qs, RcodeSuccess)]
             /\ store' = [store EXCEPT ![name] = RecsAfterHandler(recs)]
    /\ UNCHANGED <<mainPc, proxy, verbose, servers, spawned, wg, ctxDone, mux, tPc,
                   sdPc, started, errLog, mainErr, resVars, proxVars,
                   loadVars>>

\* a query for any other name arrives on net t:
\* logRequest(false, proxyHandler)
QueryProxy(t) ==
    /\ Alive /\ tPc[t] = "Running" /\ "." \in mux
    /\ \E name \in QueryNames \ mux, qs \in RunQuestionLists :
          \E st \in IF LoopEntered(proxy) THEN LoopResults(ProxyStart, 1, servers)
                    ELSE {ProxyStart} :
             LET rep == Reply(st, RcodeSuccess)
             IN last' = [net |-> t, name |-> name, questions |-> qs, local |-> FALSE,
                         written |-> <<rep.m>>,
                         rcode |-> rep.rcode,
                         log |-> LogLines(verbose, FALSE, proxy, qs, rep.rcode)]
    /\ UNCHANGED <<mainPc, proxy, verbose, servers, store, spawned, wg, ctxDone, mux,
                   tPc, sdPc, started, errLog, mainErr, resVars, proxVars,
                   loadVars>>

Next ==
    \/ MainParse
    \/ MainConfig
    \/ MainRead
    \/ MainLoad
    \/ MainSpawn
    \/ MainSignal
    \/ MainCancel
    \/ MainWait
    \/ \E t \in NetSet :
          \/ ServeRegister(t)
          \/ ListenOk(t)
          \/ ListenFail(t)
          \/ ServeFail(t)
          \/ ShutdownCall(t)
          \/ ServeReturn(t)
          \/ ServeDone(t)
          \/ QueryLocal(t)
          \/ QueryProxy(t)

Spec == Init /\ [][Next]_vars

\* the Go scheduler runs every runnable goroutine; signals, queries and
\* listener failures come from outside and need not happen
Fairness ==
    /\ WF_vars(MainParse) /\ WF_vars(MainConfig) /\ WF_vars(MainRead)
    /\ WF_vars(MainLoad) /\ WF_vars(MainSpawn) /\ WF_vars(MainCancel)
    /\ WF_vars(MainWait)
    /\ \A t \in NetSet :
          /\ WF_vars(ServeRegister(t))
          /\ WF_vars(ListenOk(t) \/ ListenFail(t))
          /\ WF_vars(ShutdownCall(t))
          /\ WF_vars(ServeReturn(t))
          /\ WF_vars(ServeDone(t))

FairSpec == Spec /\ Fairness

(***************************************************************************)
(* SpecLoad: data.UnmarshalJSON applied to one document, one domain of the *)
(* range loop per step, in any order of the domain keys.                   *)
(***************************************************************************)
LoadInit ==
    /\ ldNil \in BOOLEAN
    /\ ldDoc \in IF ldNil THEN DocumentsOver(MaxDomains, {GoodEntry})
                 ELSE Documents(MaxDomains)
    /\ ldStore = <<>> /\ ldTodo = {} /\ ldErr = NoErr /\ ldPc = "start"
    /\ ResolveIdle /\ ProxyIdle /\ RunIdle

\* if d == nil
LoadNilMap ==
    /\ ldPc = "start" /\ ldNil
    /\ ldErr' = [kind |-> "errNilMapUnmarshal", line |-> <<>>]
    /\ ldPc' = "done"
    /\ UNCHANGED <<ldDoc, ldNil, ldStore, ldTodo, resVars, proxVars, runVars>>

\* json.Unmarshal(b, &m) fails and its error is returned
LoadSyntaxError ==
    /\ ldPc = "start" /\ ~ldNil /\ ldDoc.bad
    /\ ldErr' = [kind |-> "json", line |-> <<>>]
    /\ ldPc' = "done"
    /\ UNCHANGED <<ldDoc, ldNil, ldStore, ldTodo, resVars, proxVars, runVars>>

\* json.Unmarshal(b, &m) succeeds and the range over m begins
LoadBegin ==
    /\ ldPc = "start" /\ ~ldNil /\ ~ldDoc.bad
    /\ ldTodo' = DOMAIN ldDoc.domains
    /\ ldPc' = "range"
    /\ UNCHANGED <<ldDoc, ldNil, ldStore, ldErr, resVars, proxVars, runVars>>

\* mutant: the key is lower-cased and not qualified
DomainOfLowerOnly(key) == ToLower(key)

\* the normalised name of a domain key
DomainOf(key) == Fqdn(ToLower(key))

\* the results records.UnmarshalJSON may have for the entry of doc under key
EntryResultsOf(doc, key) ==
    LET entry == doc.domains[key]
    IN {recordsUnmarshalJSON(DomainOf(key), entry, ord)
          : ord \in RangeOrders(DOMAIN entry.types)}

EntryResults(key) == EntryResultsOf(ldDoc, key)

\* mutant: the record set is added to the one already stored under the name
StoreEntryMerged(d, key, data) ==
    LET domain == DomainOf(key)
        old == IF domain \in DOMAIN d THEN d[domain].data ELSE <<>>
    IN (domain :> [fqdn |-> domain,
                   data |-> [t \in DOMAIN old \cup DOMAIN data |->
                               (IF t \in DOMAIN old THEN old[t] ELSE <<>>)
                                 \o (IF t \in DOMAIN data THEN data[t] ELSE <<>>)]])
         @@ d

\* d[domain] = rt
StoreEntry(d, key, data) ==
    (DomainOf(key) :> [fqdn |-> DomainOf(key), data |-> data]) @@ d

\* the results the range loop of data.UnmarshalJSON over the keys todo of doc
\* may have, d being the store so far: every order of the keys is followed
RECURSIVE RangeOutcomes(_, _, _)
RangeOutcomes(doc, d, todo) ==
    IF todo = {} THEN {[store |-> d, err |-> NoErr]}
    ELSE UNION {UNION {IF res.err # NoErr
                       THEN {[store |-> d, err |-> res.err]}
                       ELSE RangeOutcomes(doc, StoreEntry(d, key, res.data),
                                          todo \ {key})
                         : res \in EntryResultsOf(doc, key)}
                  : key \in todo}

\* the results data.UnmarshalJSON may have on a document that is a JSON
\* object, given an empty map
LoadOutcomes(doc) == RangeOutcomes(doc, <<>>, DOMAIN doc.domains)

\* one iteration of the range over m: the entry is normalised and stored
LoadDomainOk ==
    /\ ldPc = "range"
    /\ \E key \in ldTodo : \E res \in EntryResults(key) :
          /\ res.err = NoErr
          /\ ldStore' = StoreEntry(ldStore, key, res.data)
          /\ ldTodo' = ldTodo \ {key}
    /\ UNCHANGED <<ldDoc, ldNil, ldErr, ldPc, resVars, proxVars, runVars>>

\* one iteration of the range over m: the entry's error is returned
LoadDomainErr ==
    /\ ldPc = "range"
    /\ \E key \in ldTodo : \E res \in EntryResults(key) :
          /\ res.err # NoErr
          /\ ldErr' = res.err
    /\ ldPc' = "done"
    /\ UNCHANGED <<ldDoc, ldNil, ldStore, ldTodo, resVars, proxVars, runVars>>

\* the range is over: return err, which is nil
LoadReturn ==
    /\ ldPc = "range" /\ ldTodo = {}
    /\ ldPc' = "done"
    /\ UNCHANGED <<ldDoc, ldNil, ldStore, ldTodo, ldErr, resVars, proxVars, runVars>>

LoadNext ==
    \/ LoadNilMap
    \/ LoadSyntaxError
    \/ LoadBegin
    \/ LoadDomainOk
    \/ LoadDomainErr
    \/ LoadReturn

SpecLoad == LoadInit /\ [][LoadNext]_vars

\* the same load, of the documents tried for the letter case
LoadCaseInit ==
    /\ ldNil \in BOOLEAN
    /\ ldDoc \in IF ldNil THEN DocumentsOver(MaxDomains, {GoodEntry})
                 ELSE CaseDocuments(MaxDomains)
    /\ ldStore = <<>> /\ ldTodo = {} /\ ldErr = NoErr /\ ldPc = "start"
    /\ ResolveIdle /\ ProxyIdle /\ RunIdle

SpecLoadCase == LoadCaseInit /\ [][LoadNext]_vars

(***************************************************************************)
(* Properties of the local handler, checked under SpecResolve.             *)
(***************************************************************************)
\* the sequence stored under type t, empty when t is no key of the type map
Stored(recs, t) == IF t \in DOMAIN recs THEN recs[t] ELSE <<>>

\* the records of type t in s, in the order of s
OfType(s, t) == SelectSeq(s, LAMBDA r : r.rrtype = t)

\* the answer of a query none of whose questions is ANY
RECURSIVE TypedAnswers(_, _)
TypedAnswers(recs, qs) ==
    IF qs = <<>> THEN <<>> ELSE Stored(recs, Head(qs)) \o TypedAnswers(recs, Tail(qs))

\* what the step appends to the answer section
Appended == SubSeq(hAnswer', Len(hAnswer) + 1, Len(hAnswer'))

HandlerReplied == hPc \in {"write", "log", "done"}

\* C6: whatever the questions (none, several, ANY), the authority section of
\* the reply is exactly the stored NS records and the additional section is
\* exactly the stored A records followed by the stored AAAA records, each in
\* stored order and each appended once; the message written carries them.
C6_Sections ==
    /\ ~HandlerReplied => hNs = <<>> /\ hExtra = <<>>
    /\ HandlerReplied =>
          /\ hNs = Stored(hRecs, TypeNS)
          /\ hExtra = Stored(hRecs, TypeA) \o Stored(hRecs, TypeAAAA)
    /\ hPc = "done" =>
          /\ Len(hWritten) = 1
          /\ hWritten[1].ns = Stored(hRecs, TypeNS)
          /\ hWritten[1].extra = Stored(hRecs, TypeA) \o Stored(hRecs, TypeAAAA)

\* a query for a type the handler does not single out, against a record set
\* that holds NS, A and AAAA records
C6_Witness ==
    /\ hPc = "done" /\ hQuestions = <<TypeMX>>
    /\ {TypeNS, TypeA, TypeAAAA} \subseteq DOMAIN hRecs
    /\ hWritten[1].extra # <<>> /\ hWritten[1].ns # <<>>

\* C7: a question of a type other than ANY appends to the answer section
\* exactly the records stored under that type, in stored order (nothing when
\* the type is not stored); the status stays success; the answer of a query
\* without ANY questions is the concatenation of these in question order.
C7_TypedAnswer ==
    /\ [][(hPc = "answer" /\ hIdx <= Len(hQuestions) /\ hQuestions[hIdx] # TypeANY)
            => /\ Len(hAnswer') >= Len(hAnswer)
               /\ SubSeq(hAnswer', 1, Len(hAnswer)) = hAnswer
               /\ Appended = Stored(hRecs, hQuestions[hIdx])]_vars
    /\ [](hRcode = RcodeSuccess)
    /\ []((hPc = "done" /\ \A i \in DOMAIN hQuestions : hQuestions[i] # TypeANY)
            => /\ hWritten[1].answer = TypedAnswers(hRecs, hQuestions)
               /\ hWritten[1].rcode = RcodeSuccess)

\* two typed questions, the first of a stored type, the second of a type that
\* is not stored
C7_Witness ==
    /\ hPc = "done" /\ Len(hQuestions) = 2
    /\ hQuestions[1] \in DOMAIN hRecs /\ hQuestions[1] # TypeANY
    /\ hQuestions[2] \notin DOMAIN hRecs /\ hQuestions[2] # TypeANY
    /\ hWritten[1].answer = hRecs[hQuestions[1]]

\* C8: an ANY question appends every stored record of every type exactly as
\* many times as it occurs in its type's sequence, in stored order within each
\* type, and nothing else; so the answer of a query whose one question is ANY
\* is the union of the stored sequences.
C8_AnyAnswer ==
    /\ [][(hPc = "answer" /\ hIdx <= Len(hQuestions) /\ hQuestions[hIdx] = TypeANY)
            => /\ Len(hAnswer') >= Len(hAnswer)
               /\ SubSeq(hAnswer', 1, Len(hAnswer)) = hAnswer
               /\ \A i \in DOMAIN Appended : Appended[i].rrtype \in DOMAIN hRecs
               /\ \A t \in DOMAIN hRecs : OfType(Appended, t) = hRecs[t]]_vars
    /\ []((hPc = "done" /\ hQuestions = <<TypeANY>>)
            => /\ \A i \in DOMAIN hWritten[1].answer :
                     hWritten[1].answer[i].rrtype \in DOMAIN hRecs
               /\ \A t \in DOMAIN hRecs : OfType(hWritten[1].answer, t) = hRecs[t])

\* an ANY query against a record set of several types, one of which stores
\* the same record more than once
C8_Witness ==
    /\ hPc = "done" /\ hQuestions = <<TypeANY>>
    /\ Cardinality(DOMAIN hRecs) >= 3
    /\ \E t \in DOMAIN hRecs : Len(hRecs[t]) >= 2 /\ hRecs[t][1] = hRecs[t][2]
    /\ \E t \in DOMAIN hRecs : Len(hRecs[t]) >= 2 /\ hRecs[t][1] # hRecs[t][2]
(***************************************************************************)
(* Properties of the proxy forwarder, checked under SpecProxy.             *)
(***************************************************************************)
ProxyReplied == pPc \in {"log", "done"}

Contacted == pSt.contacted

AllFailed == \A i \in DOMAIN Contacted : ~Contacted[i].ok

\* C1: with forwarding enabled the upstream servers are contacted in list
\* order, each only after every server before it has failed and none after
\* the first that succeeds; every server is tried while none has succeeded;
\* and when one succeeds, the one message written is the response received
\* from it, unmodified.
C1_FirstSuccess ==
    pProxy =>
      /\ Len(Contacted) <= Len(pServers)
      /\ \A i \in DOMAIN Contacted :
            /\ Contacted[i].ns = pServers[i]
            /\ i < Len(Contacted) => ~Contacted[i].ok
      /\ ProxyReplied =>
            /\ Len(pWritten) = 1
            /\ AllFailed => Len(Contacted) = Len(pServers)
            /\ ~AllFailed =>
                  /\ pWritten[1] = Contacted[Len(Contacted)].msg
                  /\ pWritten[1].origin = pServers[Len(Contacted)]
                  /\ pWritten[1].reply = FALSE

\* the list [bad, good]: the first server fails, the second answers, and the
\* second server's response is written
C1_Witness ==
    /\ pProxy /\ pPc = "done" /\ Len(pServers) = 2
    /\ Len(Contacted) = 2 /\ ~Contacted[1].ok /\ Contacted[2].ok
    /\ pWritten = <<UpstreamMsg(pServers[2], RcodeSuccess)>>

C3_NotProxied ==
    ~pProxy =>
      /\ Contacted = <<>>
      /\ pPc \notin {"loop", "panic"}
      /\ ProxyReplied => pWritten = <<SetRcode(NewMsg, RcodeServerFailure)>>

\* forwarding disabled although a resolver configuration with servers is set
C3_Witness ==
    /\ ~pProxy /\ pPc = "done" /\ pServers # NilConfig /\ Len(pServers) = 2
    /\ pWritten[1].rcode = RcodeServerFailure
(***************************************************************************)
(* Properties of both handlers, checked under SpecHandlers.                *)
(***************************************************************************)
\* C19: each handler gives the response writer exactly one message, never
\* nil, on every path: none before its write step and one from then on; the
\* steps of the logging wrapper write nothing.
C19_OneResponse ==
    /\ [](Len(hWritten) = IF hPc \in {"log", "done"} THEN 1 ELSE 0)
    /\ [](Len(pWritten) = IF pPc \in {"log", "done"} THEN 1 ELSE 0)
    /\ [](\A i \in DOMAIN hWritten : hWritten[i] # NilMsg)
    /\ [](\A i \in DOMAIN pWritten : pWritten[i] # NilMsg)
    /\ [][/\ hPc = "log" => hWritten' = hWritten
          /\ pPc = "log" => pWritten' = pWritten]_vars
    /\ [](pPc # "panic")

\* the forwarder has answered and logged a request after every upstream
\* failed without a message
C19_Witness ==
    /\ pPc = "done" /\ pProxy /\ pVerbose
    /\ Len(pSt.contacted) >= 2 /\ AllFailed
    /\ \A i \in DOMAIN pSt.contacted : pSt.contacted[i].msg = NilMsg
    /\ Len(pWritten) = 1 /\ pLog # <<>>

(***************************************************************************)
(* Properties of the process, checked under Spec and FairSpec.             *)
(***************************************************************************)
AllStopped == \A t \in NetSet : tPc[t] = "Stopped"

Loaded == mainPc \in {"spawn", "signal", "cancel", "wait", "exited"}

\* C4: once the cancellation has fired, every transport reaches Stopped and
\* main exits, however the cancellation interleaves with the start of the
\* listeners.
C4_ShutdownCompletes == ctxDone ~> (AllStopped /\ mainPc = "exited")

\* C5: main is past the wait only when every transport is Stopped; the wait
\* group counts exactly the transports started and not yet Stopped, each
\* having signalled it once; and a Stopped transport stays Stopped.
C5_ExitAfterStopped ==
    /\ [](mainPc = "exited" => AllStopped)
    /\ [](wg = Cardinality({t \in NetSet : tPc[t] \notin {"NotSpawned", "Stopped"}}))
    /\ [][\A t \in NetSet : tPc[t] = "Stopped" => tPc'[t] = "Stopped"]_vars

\* main has exited after a shutdown in which one listener had failed to start
\* and the other was serving
C5_Witness ==
    /\ mainPc = "exited" /\ AllStopped
    /\ <<"tcp", "serve">> \in errLog /\ <<"tcp", "shutdown">> \in errLog
    /\ <<"udp", "serve">> \notin errLog /\ <<"udp", "shutdown">> \notin errLog

\* whether the step handles, with the local handler, the query handled last
SameLocalQueryAgain ==
    /\ last # NoQuery /\ last.local
    /\ last'.local /\ last'.name = last.name /\ last'.questions = last.questions

\* C10 as claimed: after the load the store never changes, and a query
\* repeated against the same domain gets the same answer, authority and
\* additional sections.
C10_SameSections ==
    [][/\ Loaded => store' = store
       /\ SameLocalQueryAgain => last'.written = last.written]_vars

\* C10: after the load the store never changes, whatever queries the two
\* transports handle; a query repeated against the same domain gets the same
\* authority and additional sections and the same answer records, each type's
\* in stored order, the answer being identical when no question is ANY (the
\* order of the types within an ANY question's records may differ).
C10_StoreReadOnly ==
    [][/\ Loaded => store' = store
       /\ SameLocalQueryAgain =>
            /\ Len(last'.written) = 1 /\ Len(last.written) = 1
            /\ last'.written[1].ns = last.written[1].ns
            /\ last'.written[1].extra = last.written[1].extra
            /\ last'.written[1].rcode = last.written[1].rcode
            /\ Len(last'.written[1].answer) = Len(last.written[1].answer)
            /\ \A t \in SupportedCodes :
                  OfType(last'.written[1].answer, t) = OfType(last.written[1].answer, t)
            /\ (\A i \in DOMAIN last.questions : last.questions[i] # TypeANY)
                  => last'.written[1].answer = last.written[1].answer]_vars

\* an ANY query answered on udp, NS records first, while tcp is serving too
C10_Witness ==
    /\ last # NoQuery /\ last.local /\ last.net = "udp"
    /\ last.questions = <<TypeANY>>
    /\ tPc["tcp"] = "Running" /\ tPc["udp"] = "Running"
    /\ Cardinality(DOMAIN store[last.name]) >= 2
    /\ last.written[1].answer[1].rrtype = TypeNS

\* the nets whose serve goroutine logs an error in the step
LoggingNets == {t \in NetSet : \E k \in {"serve", "shutdown"} : <<t, k>> \in errLog' \ errLog}

\* a step in which serve logs a failure leaves main where it is and changes
\* the state of no other transport; and main is never ended by a failure once
\* the transports are started
FailureOnlyLogged ==
    /\ [][LoggingNets # {} =>
            /\ mainPc' = mainPc /\ wg' = wg /\ ctxDone' = ctxDone
            /\ \A u \in NetSet \ LoggingNets :
                  tPc'[u] = tPc[u] /\ started'[u] = started[u] /\ sdPc'[u] = sdPc[u]]_vars
    /\ [](spawned > 0 => mainPc # "fatal")
    /\ [][(spawned > 0 /\ mainPc = "signal") => mainPc' \in {"signal", "cancel"}]_vars

\* a transport whose serve loop or graceful-stop call has failed stops
FailedTransportStops ==
    \A t \in NetSet :
       (\E k \in {"serve", "shutdown"} : <<t, k>> \in errLog)
          ~> (tPc[t] \in {"Returned", "Stopped"})

\* C11: a failure of one transport's serve loop or of its graceful-stop call
\* is only logged and stops that transport alone: the other transport and
\* main go on as they were.
C11_FailureStopsOneTransport == FailureOnlyLogged /\ FailedTransportStops

\* no serve goroutine exists and no listener is bound
NoListener ==
    \A t \in NetSet : tPc[t] = "NotSpawned" /\ ~started[t] /\ sdPc[t] = "none"

\* C12: no listener is started before the load has finished; when the
\* resolver configuration, the reading of the document or the load fails, or
\* forwarding is on and no name server is configured, main ends without any
\* listener having been started.
C12_LoadBeforeListen ==
    /\ ~Loaded => NoListener
    /\ mainErr # "nil" => (mainPc = "fatal" /\ NoListener)
    /\ (proxy /\ mainPc \notin {"parse", "config"}
          /\ (servers = NilConfig \/ Len(servers) = 0))
         => (mainPc = "fatal" /\ NoListener)
    /\ mainPc = "fatal" => NoListener

\* both listeners are bound, after a load that left the local domain in the
\* store
C12_Witness ==
    /\ started["tcp"] /\ started["udp"] /\ Loaded /\ mainErr = "nil"
    /\ LocalDomain \in DOMAIN store
(***************************************************************************)
(* Properties of the normaliser, checked under SpecLoad.                   *)
(***************************************************************************)
\* whether some field map under a supported type name of the document gives
\* a line that the RR constructor rejects
HasRejectedRecord(doc) ==
    \E key \in DOMAIN doc.domains :
       LET entry == doc.domains[key] IN
       /\ ~entry.bad
       /\ \E tn \in DOMAIN entry.types :
             /\ ToUpper(tn) \in DOMAIN supportedTypes
             /\ \E j \in DOMAIN entry.types[tn] :
                   rrFromMap(ToUpper(tn), DomainOf(key), entry.types[tn][j]).err # NoErr

LoadFinished == ldPc = "done" /\ ~ldNil /\ ~ldDoc.bad

\* a load of a document with a rejected record returns an error
LoadErrorReturned == (LoadFinished /\ HasRejectedRecord(ldDoc)) => ldErr # NoErr

\* C9: when a field map of a supported type gives a rejected line the load
\* returns an error and leaves no domain entry of the document in the store.
C9_NoPartialStore ==
    (LoadFinished /\ HasRejectedRecord(ldDoc)) => (ldErr # NoErr /\ ldStore = <<>>)

LoadSucceeded == LoadFinished /\ ldErr = NoErr

\* whether name holds no upper-case letter and ends with the separator
IsNormalName(name) ==
    /\ name # <<>> /\ name[Len(name)] = "."
    /\ \A i \in DOMAIN name : \A k \in DOMAIN UpperChars : name[i] # UpperChars[k]

\* C13: after a successful load every key of the store is lower-cased and
\* ends with the separator, the record set under a key carries that key as
\* its domain name, and the keys are the normalised keys of the document.
C13_NormalKeys ==
    LoadSucceeded =>
       /\ \A name \in DOMAIN ldStore :
             IsNormalName(name) /\ ldStore[name].fqdn = name
       /\ \A key \in DOMAIN ldDoc.domains :
             \E name \in DOMAIN ldStore :
                Len(name) \in {Len(key), Len(key) + 1}
                  /\ \A i \in DOMAIN key : ToLower(<<name[i]>>) = ToLower(<<key[i]>>)

\* a document with the key "A.t" and another domain has been loaded
C13_Witness ==
    /\ LoadSucceeded
    /\ <<"A", ".", "t">> \in DOMAIN ldDoc.domains
    /\ <<"a", ".", "t", ".">> \in DOMAIN ldStore
    /\ Cardinality(DOMAIN ldStore) = 2

\* s with the letter at position i, if it is one, in the other case
FlipCase(s, i) ==
    [s EXCEPT ![i] =
        IF \E k \in DOMAIN UpperChars : UpperChars[k] = @
        THEN LowerChars[IndexIn(UpperChars, @)]
        ELSE IF \E k \in DOMAIN LowerChars : LowerChars[k] = @
        THEN UpperChars[IndexIn(LowerChars, @)]
        ELSE @]

\* f with the key old renamed to new
Rename(f, old, new) ==
    (new :> f[old]) @@ [k \in DOMAIN f \ {old} |-> f[k]]

\* the documents that differ from doc in the case of one letter of one
\* domain key, or of one supported type name of one entry
CaseVariants(doc) ==
    {[doc EXCEPT !.domains = Rename(@, c[1], FlipCase(c[1], c[2]))] :
        c \in {c \in UNION {{<<key, i>> : i \in DOMAIN key} : key \in DOMAIN doc.domains} :
                 FlipCase(c[1], c[2]) \notin DOMAIN doc.domains}}
      \cup
    UNION {{[doc EXCEPT !.domains[key].types = Rename(@, c[1], FlipCase(c[1], c[2]))] :
              c \in {c \in UNION {{<<tn, i>> : i \in DOMAIN tn}
                                    : tn \in DOMAIN doc.domains[key].types} :
                       /\ ToUpper(c[1]) \in DOMAIN supportedTypes
                       /\ FlipCase(c[1], c[2]) \notin DOMAIN doc.domains[key].types}}
             : key \in DOMAIN doc.domains}

\* C14: a document that differs from the one loaded only in the letter case
\* of a domain key or of a supported type name has the same possible results
\* (same keys, same types, same records in the same order, same error), and
\* the result of the load is one of them.
C14_CaseInsensitive ==
    /\ (ldPc = "start" /\ ~ldNil /\ ~ldDoc.bad) =>
          \A v \in CaseVariants(ldDoc) : LoadOutcomes(v) = LoadOutcomes(ldDoc)
    /\ LoadFinished => [store |-> ldStore, err |-> ldErr] \in LoadOutcomes(ldDoc)

\* a document with the type name "a" and a domain key with an upper-case
\* letter has been loaded and has left records
C14_Witness ==
    /\ LoadSucceeded
    /\ CaseVariants(ldDoc) # {}
    /\ \E key \in DOMAIN ldDoc.domains :
          /\ key # ToLower(key)
          /\ <<"a">> \in DOMAIN ldDoc.domains[key].types
          /\ TypeA \in DOMAIN ldStore[DomainOf(key)].data

\* the keys of the document that normalise to name
KeysOf(name) == {key \in DOMAIN ldDoc.domains : DomainOf(key) = name}

\* C15: no type of a stored record set has an empty sequence: each type that
\* is a key has records, all of that type; and after a successful load a
\* domain whose entry is the empty object has a record set with no type.
C15_NoEmptySequence ==
    /\ \A name \in DOMAIN ldStore :
          LET data == ldStore[name].data
          IN \A t \in DOMAIN data :
                /\ t \in SupportedCodes /\ data[t] # <<>>
                /\ \A i \in DOMAIN data[t] : data[t][i] # NoRR /\ data[t][i].rrtype = t
    /\ LoadSucceeded =>
          \A name \in {DomainOf(key) : key \in DOMAIN ldDoc.domains} :
             (\A key \in KeysOf(name) : DOMAIN ldDoc.domains[key].types = {})
                => (name \in DOMAIN ldStore /\ DOMAIN ldStore[name].data = {})

\* a domain whose only type has nothing but a nil field map has been loaded
\* beside a domain with a record
C15_Witness ==
    /\ LoadSucceeded
    /\ \E key \in DOMAIN ldDoc.domains :
          /\ DOMAIN ldDoc.domains[key].types = {<<"A">>}
          /\ ldDoc.domains[key].types[<<"A">>] = <<NilFieldMap>>
          /\ DOMAIN ldStore[DomainOf(key)].data = {}
    /\ \E name \in DOMAIN ldStore : DOMAIN ldStore[name].data # {}

\* the supported type names
SupportedNames ==
    {<<"A">>, <<"A", "A", "A", "A">>, <<"C", "A", "A">>, <<"C", "N", "A", "M", "E">>,
     <<"M", "X">>, <<"N", "S">>, <<"P", "T", "R">>, <<"T", "X", "T">>}

\* the type names of entry that are not supported, in any letter case
UnsupportedIn(entry) == {tn \in DOMAIN entry.types : ToUpper(tn) \notin SupportedNames}

\* entry without its unsupported type names
Supported(entry) ==
    [entry EXCEPT !.types = [tn \in DOMAIN entry.types \ UnsupportedIn(entry) |->
                               entry.types[tn]]]

\* the results records.UnmarshalJSON may have for entry under key
ResultsFor(key, entry) ==
    {recordsUnmarshalJSON(DomainOf(key), entry, ord) : ord \in RangeOrders(DOMAIN entry.types)}

\* C16: an entry's unsupported type names change nothing: the entry has the
\* results it has without them, whatever their field maps are, no error and
\* no record if it has no other type name; after a successful load the
\* domain's record set is one the entry gives without them.
C16_UnsupportedDropped ==
    \A key \in DOMAIN ldDoc.domains :
       LET entry == ldDoc.domains[key]
       IN (~entry.bad /\ UnsupportedIn(entry) # {}) =>
            /\ ldPc = "start" =>
                  /\ ResultsFor(key, entry) = ResultsFor(key, Supported(entry))
                  /\ UnsupportedIn(entry) = DOMAIN entry.types =>
                        ResultsFor(key, entry) = {[data |-> <<>>, err |-> NoErr]}
            /\ (LoadSucceeded /\ KeysOf(DomainOf(key)) = {key}) =>
                  \E res \in ResultsFor(key, Supported(entry)) :
                     ldStore[DomainOf(key)].data = res.data

\* a domain with an A record and an SRV field map whose TTL is no number has
\* been loaded
C16_Witness ==
    /\ LoadSucceeded
    /\ \E key \in DOMAIN ldDoc.domains :
          /\ DOMAIN ldDoc.domains[key].types = {<<"A">>, <<"S", "R", "V">>}
          /\ \E i \in DOMAIN ldDoc.domains[key].types[<<"S", "R", "V">>] :
                ldDoc.domains[key].types[<<"S", "R", "V">>][i].ttl = <<"x">>
          /\ KeysOf(DomainOf(key)) = {key}
          /\ Len(ldStore[DomainOf(key)].data[TypeA]) = 1

\* whether s ends with t
EndsWith(s, t) ==
    /\ Len(s) >= Len(t)
    /\ \A i \in 1..Len(t) : s[Len(s) - Len(t) + i] = t[i]

\* the owner name claimed for the field map m of the domain fqdn
ClaimedOwner(fqdn, m) ==
    IF m.hostname = Absent \/ m.hostname = <<"@">> THEN fqdn
    ELSE IF EndsWith(m.hostname, fqdn) THEN m.hostname
    ELSE m.hostname \o <<".">> \o fqdn

\* the field maps of the document, each with its domain key and type name
SlotsOf(doc) ==
    UNION {UNION {{[key |-> key, tn |-> tn, m |-> doc.domains[key].types[tn][j]]
                     : j \in DOMAIN doc.domains[key].types[tn]}
                    : tn \in DOMAIN doc.domains[key].types}
             : key \in DOMAIN doc.domains}

\* C17: for every supported type the record line of a field map begins with
\* the domain name when hostname is absent or @, with the hostname when it
\* ends with the domain name, and with hostname.domain otherwise; the records
\* stored bear these names.
C17_OwnerName ==
    /\ ldPc = "start" =>
          \A s \in SlotsOf(ldDoc) :
             (~s.m.nil /\ ToUpper(s.tn) \in SupportedNames) =>
                LET line == Join(LineParts(ToUpper(s.tn), DomainOf(s.key), s.m))
                    owner == ClaimedOwner(DomainOf(s.key), s.m)
                    res == rrFromMap(ToUpper(s.tn), DomainOf(s.key), s.m)
                IN /\ SubSeq(line, 1, Len(owner) + 1) = owner \o <<" ">>
                   /\ res.rr # NoRR => res.rr.name = Fqdn(owner)
    /\ LoadSucceeded =>
          \A name \in DOMAIN ldStore : \A t \in DOMAIN ldStore[name].data :
             \A i \in DOMAIN ldStore[name].data[t] :
                \E s \in SlotsOf(ldDoc) :
                   /\ DomainOf(s.key) = name /\ ~s.m.nil
                   /\ ldStore[name].data[t][i].name = Fqdn(ClaimedOwner(name, s.m))

\* a record whose host name ends with the domain name has been stored under
\* that host name
C17_Witness ==
    /\ LoadSucceeded
    /\ \E name \in DOMAIN ldStore : \E t \in DOMAIN ldStore[name].data :
          \E i \in DOMAIN ldStore[name].data[t] :
             /\ ldStore[name].data[t][i].name = <<"w", ".">> \o name
             /\ \E s \in SlotsOf(ldDoc) :
                   DomainOf(s.key) = name /\ s.m.hostname = <<"w", ".">> \o name

\* l without its nil field maps
RECURSIVE NonNil(_)
NonNil(l) ==
    IF l = <<>> THEN <<>>
    ELSE (IF l[1].nil THEN <<>> ELSE <<l[1]>>) \o NonNil(Tail(l))

\* entry without the nil field maps of its lists
WithoutNil(entry) ==
    [entry EXCEPT !.types = [tn \in DOMAIN entry.types |-> NonNil(entry.types[tn])]]

\* whether a list of entry holds a nil field map
HasNil(entry) ==
    \E tn \in DOMAIN entry.types : NonNil(entry.types[tn]) # entry.types[tn]

\* C18: a nil field map gives no record and no error, for every type and
\* domain; an entry has the results it has without its nil field maps; after
\* a successful load the domain's record set is one the entry gives without
\* them.
C18_NilFieldMap ==
    \A key \in DOMAIN ldDoc.domains :
       LET entry == ldDoc.domains[key]
       IN (~entry.bad /\ HasNil(entry)) =>
            /\ ldPc = "start" =>
                  /\ \A tn \in DOMAIN entry.types :
                        rrFromMap(ToUpper(tn), DomainOf(key), NilFieldMap)
                          = [rr |-> NoRR, err |-> NoErr]
                  /\ ResultsFor(key, entry) = ResultsFor(key, WithoutNil(entry))
            /\ (LoadSucceeded /\ KeysOf(DomainOf(key)) = {key}) =>
                  \E res \in ResultsFor(key, WithoutNil(entry)) :
                     ldStore[DomainOf(key)].data = res.data

\* a list of a nil field map followed by a well-formed one has been loaded
\* and has left one record
C18_Witness ==
    /\ LoadSucceeded
    /\ \E key \in DOMAIN ldDoc.domains :
          /\ KeysOf(DomainOf(key)) = {key}
          /\ DOMAIN ldDoc.domains[key].types = {<<"N", "S">>}
          /\ ldDoc.domains[key].types[<<"N", "S">>] = <<NilFieldMap, BaseFieldMap>>
          /\ Len(ldStore[DomainOf(key)].data[TypeNS]) = 1

\* the names under which two keys or more of the document are stored
SharedNames == {name \in {DomainOf(key) : key \in DOMAIN ldDoc.domains} :
                  Cardinality(KeysOf(name)) >= 2}

\* C20: when two keys of the document normalise to one name, a successful
\* load leaves under that name the record set of one of the two entries, as
\* that entry alone gives it.
C20_OneEntryWhole ==
    LoadSucceeded =>
       \A name \in SharedNames :
          /\ name \in DOMAIN ldStore
          /\ \E key \in KeysOf(name) :
                \E res \in ResultsFor(key, ldDoc.domains[key]) :
                   res.err = NoErr /\ ldStore[name] = [fqdn |-> name, data |-> res.data]

\* the keys "a.t." and "A.t" had entries of different types, and the store
\* holds the records of one of them
C20_Witness ==
    /\ LoadSucceeded
    /\ SharedNames # {}
    /\ \E name \in SharedNames : \E k1 \in KeysOf(name), k2 \in KeysOf(name) :
          /\ DOMAIN ldDoc.domains[k1].types = {<<"N", "S">>}
          /\ DOMAIN ldDoc.domains[k2].types = {<<"A">>}
          /\ DOMAIN ldStore[name].data = {TypeNS}
====
